---- MODULE Spec2Model ----
(***************************************************************************)
(* A model of the indexing engine of codebase_indexer.py: the path        *)
(* classifier, the change-detection cache, the extractor dispatch, the     *)
(* dependency resolver and the index assembler, driven by main().          *)
(*                                                                         *)
(* Python strings are sequences of one-character strings, so that the      *)
(* substring, suffix and stem computations of the code are computed and    *)
(* not assumed.  A file of the tree is named by a short identifier; its    *)
(* relative path is RelPath(f).                                            *)
(***************************************************************************)
EXTENDS Integers, Sequences, FiniteSets, TLC

(***************************************************************************)
(* Bounds of the model.                                                    *)
(***************************************************************************)
\* number of consecutive invocations of main() on the same root
MaxRuns == 2
\* number of changes the environment makes to the tree
MaxTouches == 1

(***************************************************************************)
(* str operations                                                          *)
(***************************************************************************)
IsAt(s, sub, i) ==
    /\ i >= 1
    /\ i + Len(sub) - 1 <= Len(s)
    /\ \A k \in 1..Len(sub) : s[i + k - 1] = sub[k]

\* sub in s
Contains(s, sub) == \E i \in 1..(Len(s) + 1) : IsAt(s, sub, i)

\* s.endswith(suf)
EndsWith(s, suf) == Len(suf) <= Len(s) /\ IsAt(s, suf, Len(s) - Len(suf) + 1)

\* s.startswith(pre)
StartsWith(s, pre) == IsAt(s, pre, 1)

UpperAlpha == <<"A","B","C","D","E","F","G","H","I","J","K","L","M",
                "N","O","P","Q","R","S","T","U","V","W","X","Y","Z">>
LowerAlpha == <<"a","b","c","d","e","f","g","h","i","j","k","l","m",
                "n","o","p","q","r","s","t","u","v","w","x","y","z">>

LowerChar(c) ==
    IF \E i \in 1..Len(UpperAlpha) : UpperAlpha[i] = c
    THEN LowerAlpha[CHOOSE i \in 1..Len(UpperAlpha) : UpperAlpha[i] = c]
    ELSE c

\* s.lower()
Lower(s) == [i \in 1..Len(s) |-> LowerChar(s[i])]

\* s.rfind(ch) + 1 (0 when ch does not occur)
RFind(s, ch) ==
    IF \E i \in 1..Len(s) : s[i] = ch
    THEN CHOOSE i \in 1..Len(s) : s[i] = ch /\ \A j \in (i + 1)..Len(s) : s[j] # ch
    ELSE 0

Digits == {"0","1","2","3","4","5","6","7","8","9"}

SetMin(S) == CHOOSE x \in S : \A y \in S : x <= y

\* xs[:n + 1]: a slice one item too long
TakeOneMore(xs, n) == SubSeq(xs, 1, IF Len(xs) < n + 1 THEN Len(xs) ELSE n + 1)

\* xs[:n]
Take(xs, n) == SubSeq(xs, 1, IF Len(xs) < n THEN Len(xs) ELSE n)

(***************************************************************************)
(* pathlib                                                                 *)
(***************************************************************************)
\* Path.name
PathName(p) == SubSeq(p, RFind(p, "/") + 1, Len(p))

\* Path.suffix: the last dot of the name, unless it leads or ends the name
PathSuffix(p) ==
    LET n == PathName(p)
        i == RFind(n, ".")
    IN  IF 1 < i /\ i < Len(n) THEN SubSeq(n, i, Len(n)) ELSE <<>>

\* Path.stem
PathStem(p) ==
    LET n == PathName(p)
        i == RFind(n, ".")
    IN  IF 1 < i /\ i < Len(n) THEN SubSeq(n, 1, i - 1) ELSE n

(***************************************************************************)
(* The tree under the root                                                 *)
(***************************************************************************)
\* args.path
Root == <<"p">>

\* the cache_file argument of the constructor (default .codebase_cache.json)
CacheFileName == <<".","c","o","d","e","b","a","s","e","_","c","a","c","h","e",
                   ".","j","s","o","n">>

\* the files that may exist under the root: two Python sources, a large data
\* file, a copy of a well-known JavaScript library, the cache file of the
\* engine, and a log file whose name is in upper case
SourceIds == {"A", "B", "D", "J"}
CacheId == "C"
LogId == "L"
FileIds == SourceIds \cup {CacheId, LogId}

\* str(file_path.relative_to(self.root_path))
RelPath(f) ==
    CASE f = "A" -> <<"a",".","p","y">>
      [] f = "B" -> <<"b",".","p","y">>
      [] f = "D" -> <<"d","a","t","a",".","j","s","o","n">>
      [] f = "J" -> <<"j","q","u","e","r","y",".","j","s">>
      [] f = "C" -> CacheFileName
      [] f = "L" -> <<"D","E","B","U","G",".","L","O","G">>

\* the orders in which rglob may yield the files of the tree (os.scandir
\* promises none): two opposite ones
TraversalOrders ==
    { <<"A", "B", "C", "D", "J", "L">>, <<"L", "J", "D", "C", "B", "A">> }

\* str(file_path): rglob yields paths that start with the root
FullPath(f) == Root \o <<"/">> \o RelPath(f)

(***************************************************************************)
(* File contents.  A content is named by a number; what the engine can     *)
(* observe of it (its byte size, its line count, whether it decodes as     *)
(* UTF-8, whether ast.parse accepts it, what the content heuristics and    *)
(* the extractor find in it) is ContentOf.  Numbers from CacheText on are  *)
(* the texts json.dump writes to the cache file, one per write.            *)
(***************************************************************************)
CacheText == 10

ContentOf(c) ==
    CASE c = 1 -> \* a.py: imports b, defines f
            [size |-> 40, loc |-> 3, decodes |-> TRUE, parses |-> TRUE,
             minified |-> FALSE, marker |-> FALSE,
             imports |-> << <<"b">> >>, functions |-> << <<"f">> >>]
      [] c = 2 -> \* a.py edited in place: same size, other bytes
            [size |-> 40, loc |-> 3, decodes |-> TRUE, parses |-> TRUE,
             minified |-> FALSE, marker |-> FALSE,
             imports |-> << <<"b">> >>, functions |-> << <<"g">> >>]
      [] c = 3 -> \* a.py with a syntax error
            [size |-> 25, loc |-> 2, decodes |-> TRUE, parses |-> FALSE,
             minified |-> FALSE, marker |-> FALSE,
             imports |-> << >>, functions |-> << >>]
      [] c = 4 -> \* b.py
            [size |-> 12, loc |-> 1, decodes |-> TRUE, parses |-> TRUE,
             minified |-> FALSE, marker |-> FALSE,
             imports |-> << >>, functions |-> << <<"h">> >>]
      [] c = 5 -> \* jquery.js, a bundle: one very long line, licence header
            [size |-> 600000, loc |-> 2, decodes |-> TRUE, parses |-> FALSE,
             minified |-> TRUE, marker |-> TRUE,
             imports |-> << >>, functions |-> << >>]
      [] c = 6 -> \* data.json: a large export, many short lines
            [size |-> 700000, loc |-> 9, decodes |-> TRUE, parses |-> FALSE,
             minified |-> FALSE, marker |-> FALSE,
             imports |-> << >>, functions |-> << >>]
      [] c = 7 -> \* DEBUG.LOG: two lines of log
            [size |-> 30, loc |-> 2, decodes |-> TRUE, parses |-> FALSE,
             minified |-> FALSE, marker |-> FALSE,
             imports |-> << >>, functions |-> << >>]
      [] OTHER -> \* a text of the cache file
            [size |-> 1000 + c, loc |-> 20 + c, decodes |-> TRUE, parses |-> FALSE,
             minified |-> FALSE, marker |-> FALSE,
             imports |-> << >>, functions |-> << >>]

\* hashlib.md5(content).hexdigest(): distinct contents of the model have
\* distinct digests
Md5(c) == 7000 + c

\* the contents the environment may give a.py
EditedContents == {2, 3}

(***************************************************************************)
(* Configuration set by __init__ (a part of the default sets)              *)
(***************************************************************************)
DefaultIgnorePatterns ==
    { <<"l","i","b">>,
      <<"*",".","l","o","g">>,
      <<"*",".","m","i","n",".","j","s">>,
      <<"M","a","k","e","f","i","l","e">> }

DefaultLibraryPatterns ==
    { <<"j","q","u","e","r","y">>, <<"d","3">> }

VendorIndicators ==
    { <<"/","v","e","n","d","o","r","/">>,
      <<"/","l","i","b","/">>,
      <<"/","p","l","u","g","i","n","s","/">> }

LibrarySuffixes ==
    { <<".","b","u","n","d","l","e">>, <<".","v","e","n","d","o","r">> }

MinifiedExtensions == { <<".","j","s">>, <<".","c","s","s">> }

\* self.language_map.get(suffix): None is the empty string
language_map(suffix) ==
    CASE suffix = <<".","p","y">> -> "python"
      [] suffix = <<".","j","s">> -> "javascript"
      [] suffix = <<".","j","s","o","n">> -> "json"
      [] suffix = <<".","c","s","s">> -> "css"
      [] OTHER -> ""

\* self.max_vendor_file_size
max_vendor_file_size == 500 * 1024

VARIABLES
    disk,               \* the tree: per file, exists / readable / mtime / content
    cacheData,          \* what the text of the cache file holds
    outFile,            \* the output index last written
    clock,              \* the time of the file system
    force_refresh,      \* self.force_refresh
    file_cache,         \* self.file_cache
    files,              \* self.files
    database_schema,    \* self.database_schema
    ignore_patterns,    \* self.ignore_patterns
    library_patterns,   \* self.library_patterns
    pc,                 \* where main() is
    todo,               \* the paths rglob has still to yield
    cur,                \* the file that passed the exclusion checks
    analyzed_count, cached_count,
    skipped_vendor, skipped_minified, skipped_oversized,
    run,                \* the number of this invocation
    touches,            \* changes made by the environment so far
    outcome,            \* per file, what the scan of this run did with it
    sampled,            \* the files _is_minified_file opened in this run
    loadKind,           \* what _load_cache found
    cacheSave,          \* how _save_cache ended in this run
    failCause,          \* the call an exception left, when pc = "Failed"
    started,            \* the value of touches when this run was constructed
    prev,               \* the previous run: its flag, its end, its output
    call                \* a function of the engine called on its own: its
                        \* name, its arguments and what it returned

vars == <<disk, cacheData, outFile, clock, force_refresh, file_cache, files,
          database_schema, ignore_patterns, library_patterns, pc, todo, cur,
          analyzed_count, cached_count, skipped_vendor, skipped_minified,
          skipped_oversized, run, touches, outcome, sampled, loadKind,
          cacheSave, failCause, started, prev, call>>

\* the state of the indexer and of the tree
engine == <<disk, cacheData, outFile, clock, force_refresh, file_cache, files,
            database_schema, ignore_patterns, library_patterns, pc, todo, cur,
            analyzed_count, cached_count, skipped_vendor, skipped_minified,
            skipped_oversized, run, touches, outcome, sampled, loadKind,
            cacheSave, failCause, started, prev>>

None == "None"

\* no function has been called on its own
NoCall == [fn |-> "none"]

(***************************************************************************)
(* PathClassifier                                                          *)
(***************************************************************************)
\* open(path).read() succeeds
CanOpen(f) == disk[f].exists /\ disk[f].readable

\* open(path, 'r', encoding='utf-8').read() succeeds
CanReadText(f) == CanOpen(f) /\ ContentOf(disk[f].content).decodes

is_basic_ignore(f) ==
    LET path_str == FullPath(f)
        name == PathName(FullPath(f))
    IN  \E pattern \in ignore_patterns :
            IF StartsWith(pattern, <<"*",".">>)
            THEN EndsWith(name, Tail(pattern))
            ELSE Contains(path_str, pattern) \/ name = pattern

is_vendor_file(f) ==
    LET path_str == Lower(FullPath(f))
    IN  \E indicator \in VendorIndicators : Contains(path_str, indicator)

\* the positions of name where [-._] is followed by a digit
VersionMarks(name) ==
    { i \in 1..(Len(name) - 1) : name[i] \in {"-", ".", "_"} /\ name[i + 1] \in Digits }

is_known_library(f) ==
    LET name == Lower(PathStem(FullPath(f)))
        marks == VersionMarks(name)
    IN  \/ \E lib_pattern \in library_patterns : Contains(name, lib_pattern)
        \/ /\ \E i \in marks : i > 1
           /\ SubSeq(name, 1, SetMin(marks) - 1) \in library_patterns
        \/ \E suffix \in LibrarySuffixes : EndsWith(name, suffix)

\* _is_minified_file opens the file: its extension is .js or .css
SamplesContent(f) == Lower(PathSuffix(FullPath(f))) \in MinifiedExtensions

is_minified_file(f) ==
    /\ SamplesContent(f)
    /\ CanReadText(f)
    /\ ContentOf(disk[f].content).minified

\* _is_oversized_file answering False for every file
is_oversized_file_never(f) == FALSE

is_oversized_file(f) ==
    /\ disk[f].exists
    /\ ContentOf(disk[f].content).size > max_vendor_file_size

get_language(f) == language_map(Lower(PathSuffix(FullPath(f))))

is_vendor_by_content(f) ==
    /\ CanOpen(f)
    /\ ContentOf(disk[f].content).marker

\* should_ignore: the name is lower-cased for the *.ext patterns
should_ignore(f) ==
    LET path_str == FullPath(f)
        name == Lower(PathName(FullPath(f)))
    IN  \/ \E pattern \in ignore_patterns :
              IF StartsWith(pattern, <<"*",".">>)
              THEN EndsWith(name, Tail(pattern))
              ELSE Contains(path_str, pattern) \/ PathName(FullPath(f)) = pattern
        \/ is_vendor_file(f)
        \/ is_minified_file(f)
        \/ is_known_library(f)
        \/ is_oversized_file(f)

\* the exclusion checks of the scan loop, in the order of its if/elif chain:
\* the reason of the first check that matches, "" when none does
ScanVerdict(f) ==
    IF is_basic_ignore(f) THEN "basic"
    ELSE IF is_vendor_file(f) THEN "vendor_path"
    ELSE IF is_minified_file(f) THEN "minified"
    ELSE IF is_known_library(f) THEN "library"
    ELSE IF is_oversized_file(f) THEN "oversized"
    ELSE ""

\* the scan opens f for content sampling: no earlier check of the chain matched
ScanSamples(f) ==
    ~is_basic_ignore(f) /\ ~is_vendor_file(f) /\ SamplesContent(f)

(***************************************************************************)
(* ChangeCache                                                             *)
(***************************************************************************)
\* a result that is an exception leaving the call
Raised == [ok |-> FALSE]

\* FileInfo.metadata = None
NoMetadata == [ok |-> FALSE]

\* _get_file_metadata: stat, then read the whole file and hash it
get_file_metadata(f) ==
    IF CanOpen(f)
    THEN [ok |-> TRUE,
          mtime |-> disk[f].mtime,
          size |-> ContentOf(disk[f].content).size,
          checksum |-> Md5(disk[f].content)]
    ELSE Raised

\* the (mtime, size, checksum) triple of a metadata
Triple(m) == <<m.mtime, m.size, m.checksum>>

\* self.file_cache.get(relative_path) is a record that has a metadata
HasStored(f) == f \in DOMAIN file_cache /\ file_cache[f].metadata.ok

\* _should_reanalyze_file trusting the timestamp and the size alone
should_reanalyze_file_no_checksum(f) ==
    IF force_refresh THEN "true"
    ELSE IF ~HasStored(f) THEN "true"
    ELSE LET current_metadata == get_file_metadata(f)
             cached_metadata == file_cache[f].metadata
         IN  IF ~current_metadata.ok THEN "raise"
             ELSE IF \/ current_metadata.mtime # cached_metadata.mtime
                     \/ current_metadata.size # cached_metadata.size
                  THEN "true"
                  ELSE "false"

\* _should_reanalyze_file: "true", "false", or "raise" when the metadata of
\* the file cannot be computed
should_reanalyze_file(f) ==
    IF force_refresh THEN "true"
    ELSE IF ~HasStored(f) THEN "true"
    ELSE LET current_metadata == get_file_metadata(f)
             cached_metadata == file_cache[f].metadata
         IN  IF ~current_metadata.ok THEN "raise"
             ELSE IF \/ current_metadata.mtime # cached_metadata.mtime
                     \/ current_metadata.size # cached_metadata.size
                     \/ current_metadata.checksum # cached_metadata.checksum
                  THEN "true"
                  ELSE "false"

\* _file_info_to_dict: the JSON object of a record
file_info_to_dict(r) == [rebuildable |-> TRUE, data |-> r]

\* _dict_to_file_info, for an object it can rebuild
dict_to_file_info(d) == d.data

\* the text of the cache file is no JSON document
InvalidJson == [json |-> FALSE, entries |-> << >>]

\* the entries of the cache file _load_cache gets to put in self.file_cache:
\* the loop stops at the first object _dict_to_file_info cannot rebuild, and the
\* except clause keeps what the loop has stored by then
LoadedPrefix(entries) ==
    LET bad == { i \in 1..Len(entries) : ~entries[i].rebuildable }
    IN  IF bad = {} THEN entries ELSE SubSeq(entries, 1, SetMin(bad) - 1)

\* self.file_cache after the entries es were stored in order
CacheOf(es) ==
    LET paths == { es[i].data.path : i \in 1..Len(es) }
        last(p) == CHOOSE i \in 1..Len(es) :
                       /\ es[i].data.path = p
                       /\ \A j \in (i + 1)..Len(es) : es[j].data.path # p
    IN  [p \in paths |-> dict_to_file_info(es[last(p)])]

EmptyCache == [p \in {} |-> NoMetadata]

\* _load_cache without the test of the flag
load_cache_ignoring_flag(force) ==
    IF disk[CacheId].exists /\ disk[CacheId].readable /\ cacheData.json
    THEN CacheOf(LoadedPrefix(cacheData.entries))
    ELSE EmptyCache

\* _load_cache: self.file_cache after __init__ with the flag force
load_cache(force) ==
    IF disk[CacheId].exists /\ ~force
    THEN IF disk[CacheId].readable /\ cacheData.json
         THEN CacheOf(LoadedPrefix(cacheData.entries))
         ELSE EmptyCache
    ELSE EmptyCache

\* what _load_cache met
LoadKindOf(force) ==
    IF ~disk[CacheId].exists THEN "missing"
    ELSE IF force THEN "not_loaded"
    ELSE IF ~disk[CacheId].readable THEN "unreadable"
    ELSE IF ~cacheData.json THEN "invalid_json"
    ELSE IF \E i \in 1..Len(cacheData.entries) : ~cacheData.entries[i].rebuildable
         THEN "bad_entry"
    ELSE "loaded"

\* the cache_data _save_cache dumps
cache_data_of(fs) ==
    [json |-> TRUE, entries |-> [i \in 1..Len(fs) |-> file_info_to_dict(fs[i])]]

(***************************************************************************)
(* Extractors                                                              *)
(***************************************************************************)
\* _create_basic_file_info: the line count is guarded, the metadata is not
create_basic_file_info(f, language) ==
    LET loc == IF CanReadText(f) THEN ContentOf(disk[f].content).loc ELSE 0
        metadata == get_file_metadata(f)
    IN  IF ~metadata.ok THEN Raised
        ELSE [ok |-> TRUE, basic |-> TRUE,
              info |-> [path |-> f, language |-> language, imports |-> << >>,
                        functions |-> << >>, loc |-> loc, metadata |-> metadata]]

\* the record an extractor builds when its try block runs to the end
FullFileInfo(f, language) ==
    LET c == ContentOf(disk[f].content)
    IN  [ok |-> TRUE, basic |-> FALSE,
         info |-> [path |-> f, language |-> language, imports |-> c.imports,
                   functions |-> c.functions, loc |-> c.loc,
                   metadata |-> get_file_metadata(f)]]

\* analyze_python_file: read, ast.parse, walk, metadata; any exception leads
\* to the except clause
analyze_python_file(f) ==
    IF CanReadText(f) /\ ContentOf(disk[f].content).parses
    THEN FullFileInfo(f, "python")
    ELSE create_basic_file_info(f, "python")

\* analyze_javascript_file: read, regular expressions, metadata
analyze_javascript_file(f) ==
    IF CanReadText(f)
    THEN FullFileInfo(f, get_language(f))
    ELSE create_basic_file_info(f, get_language(f))

\* the dispatch of scan_directory on the language
Extract(f, language) ==
    IF language = "python" THEN analyze_python_file(f)
    ELSE IF language = "javascript" THEN analyze_javascript_file(f)
    ELSE create_basic_file_info(f, language)

\* path, language and line count only
IsMinimal(r) == r.imports = << >> /\ r.functions = << >>

(***************************************************************************)
(* DependencyResolver and IndexAssembler                                   *)
(***************************************************************************)
\* _resolve_import: the path of the first record whose stem the import ends
\* with or contains; the empty string for None
resolve_import(import_name, fs) ==
    LET hits == { i \in 1..Len(fs) :
                    LET file_name == PathStem(RelPath(fs[i].path))
                    IN  EndsWith(import_name, file_name) \/ Contains(import_name, file_name) }
    IN  IF hits = {} THEN << >> ELSE RelPath(fs[SetMin(hits)].path)

\* generate_dependency_map's inner loop without its else branch: an import
\* that resolves to no record is dropped
DepsOfResolvedOnly(r, fs) ==
    LET resolved(k) == resolve_import(r.imports[k], fs)
        kept == { k \in 1..Len(r.imports) : resolved(k) # << >> }
        nth(n) == CHOOSE k \in kept : Cardinality({ j \in kept : j <= k }) = n
    IN  [n \in 1..Cardinality(kept) |-> resolved(nth(n))]

\* the deps list of one record
DepsOf(r, fs) ==
    [k \in 1..Len(r.imports) |->
        LET resolved == resolve_import(r.imports[k], fs)
        IN  IF resolved # << >> THEN resolved ELSE r.imports[k]]

\* generate_dependency_map: a later record of the same path overwrites
generate_dependency_map(fs) ==
    LET paths == { fs[i].path : i \in 1..Len(fs) }
        last(p) == CHOOSE i \in 1..Len(fs) :
                       fs[i].path = p /\ \A j \in (i + 1)..Len(fs) : fs[j].path # p
    IN  [p \in paths |-> DepsOf(fs[last(p)], fs)]

\* a list field of a FileInfo; a field the record does not carry has the
\* default of the dataclass, the empty list
FieldOf(r, k) == IF k \in DOMAIN r THEN r[k] ELSE << >>

\* the list fields create_summary copies, by the key each gets in the entry
SummaryField(key) ==
    CASE key = "react_components" -> "components"
      [] key = "key_variables" -> "variables"
      [] OTHER -> key

SummaryListKeys ==
    {"imports", "functions", "classes", "react_components", "php_classes",
     "includes", "defines", "structs", "cpp_classes", "namespaces",
     "key_variables"}

\* the value of one key of a summary entry: the slice the code takes
SummaryValue(r, key) ==
    LET xs == FieldOf(r, SummaryField(key))
    IN  CASE key = "imports" -> Take(xs, 10)
          [] key = "functions" -> Take(xs, 20)
          [] key = "classes" ->
                [i \in 1..Len(Take(xs, 10)) |->
                    [name |-> xs[i].name, methods |-> Take(xs[i].methods, 15)]]
          [] key = "react_components" -> Take(xs, 15)
          [] key = "php_classes" ->
                [i \in 1..Len(Take(xs, 10)) |->
                    [name |-> xs[i].name, methods |-> Take(xs[i].methods, 15),
                     properties |-> Take(xs[i].properties, 10)]]
          [] key = "includes" -> Take(xs, 15)
          [] key = "defines" -> Take(xs, 10)
          [] key = "structs" ->
                [i \in 1..Len(Take(xs, 10)) |->
                    [name |-> xs[i].name, members |-> Take(xs[i].members, 10)]]
          [] key = "cpp_classes" ->
                [i \in 1..Len(Take(xs, 10)) |->
                    [name |-> xs[i].name, methods |-> Take(xs[i].methods, 15)]]
          [] key = "namespaces" -> Take(xs, 10)
          [] key = "key_variables" -> Take(xs, 10)

\* the summary entry of one record: path, language and loc, and a key for
\* every list of the record that is not empty
FileSummary(r) ==
    LET present == { key \in SummaryListKeys : FieldOf(r, SummaryField(key)) # << >> }
    IN  [key \in {"path", "language", "loc"} \cup present |->
            CASE key = "path" -> r.path
              [] key = "language" -> r.language
              [] key = "loc" -> r.loc
              [] OTHER -> SummaryValue(r, key)]

\* sum(f.loc for f in files)
RECURSIVE SumLoc(_)
SumLoc(fs) == IF fs = << >> THEN 0 ELSE Head(fs).loc + SumLoc(Tail(fs))

\* lang_stats summing the lines of all records for every language
lang_stats_loc_of_all(fs) ==
    [lang \in { fs[i].language : i \in 1..Len(fs) } |->
        LET of_lang == SelectSeq(fs, LAMBDA f : f.language = lang)
        IN  [files |-> Len(of_lang), loc |-> SumLoc(fs)]]

\* lang_stats: per language of the records, the count and the line sum of
\* the records of that language
lang_stats(fs) ==
    [lang \in { fs[i].language : i \in 1..Len(fs) } |->
        LET of_lang == SelectSeq(fs, LAMBDA f : f.language = lang)
        IN  [files |-> Len(of_lang), loc |-> SumLoc(of_lang)]]

\* imp.split('.')[0] if '.' in imp else imp
CleanImport(imp) ==
    LET dots == { i \in 1..Len(imp) : imp[i] = "." }
    IN  IF dots = {} THEN imp ELSE SubSeq(imp, 1, SetMin(dots) - 1)

\* external_deps: the imports that are a substring of no record's path,
\* cleaned (sorted(list(set)) is the set)
external_deps(fs) ==
    LET in_tree(imp) == \E j \in 1..Len(fs) : Contains(RelPath(fs[j].path), imp)
    IN  UNION { { CleanImport(fs[i].imports[k]) :
                    k \in { n \in 1..Len(fs[i].imports) : ~in_tree(fs[i].imports[n]) } } :
                i \in 1..Len(fs) }

\* create_summary: the sections of the index the model keeps
create_summary(fs) ==
    [written |-> TRUE,
     project_overview |-> [total_files |-> Len(fs),
                           total_loc |-> SumLoc(fs),
                           languages |-> lang_stats(fs),
                           external_dependencies |-> external_deps(fs)],
     dependency_map |-> generate_dependency_map(fs),
     files |-> [i \in 1..Len(fs) |-> FileSummary(fs[i])]]

NoIndex == [written |-> FALSE, dependency_map |-> EmptyCache, files |-> << >>]

(***************************************************************************)
(* The initial tree                                                        *)
(***************************************************************************)
File(content, mtime) ==
    [exists |-> TRUE, readable |-> TRUE, mtime |-> mtime, content |-> content]

NoFile == [exists |-> FALSE, readable |-> FALSE, mtime |-> 0, content |-> 0]

\* the metadata of a.py and b.py as they are on the initial disk
MetaA == [ok |-> TRUE, mtime |-> 1, size |-> 40, checksum |-> Md5(1)]
MetaB == [ok |-> TRUE, mtime |-> 1, size |-> 12, checksum |-> Md5(4)]

\* the records an earlier run has stored for a.py and b.py
EntryA(m) ==
    [rebuildable |-> TRUE,
     data |-> [path |-> "A", language |-> "python", imports |-> << <<"b">> >>,
               functions |-> << <<"f">> >>, loc |-> 3, metadata |-> m]]
EntryB ==
    [rebuildable |-> TRUE,
     data |-> [path |-> "B", language |-> "python", imports |-> << >>,
               functions |-> << <<"h">> >>, loc |-> 1, metadata |-> MetaB]]
\* the record an earlier run would have stored for data.json, had it kept it
EntryD ==
    [rebuildable |-> TRUE,
     data |-> [path |-> "D", language |-> "json", imports |-> << >>,
               functions |-> << >>, loc |-> 9,
               metadata |-> [ok |-> TRUE, mtime |-> 1, size |-> 700000,
                             checksum |-> Md5(6)]]]
\* an object _dict_to_file_info raises on (a key FileInfo does not have)
BadEntry == [rebuildable |-> FALSE, data |-> EntryB.data]

\* the cache files a run may find: none, an unreadable one, one that is no
\* JSON, and JSON documents whose entry for a.py matches the disk, differs
\* from it in one field, has no metadata, or stands beside a bad entry
InitialCaches ==
    { [file |-> NoFile, data |-> InvalidJson],
      [file |-> [File(CacheText, 1) EXCEPT !.readable = FALSE],
       data |-> cache_data_of(<< >>)],
      [file |-> File(CacheText, 1), data |-> InvalidJson] }
    \cup
    { [file |-> File(CacheText, 1), data |-> [json |-> TRUE, entries |-> es]] :
        es \in { << EntryA(MetaA), EntryB >>,
                 << EntryA(MetaA), EntryB, EntryD >>,
                 << EntryA([MetaA EXCEPT !.mtime = 0]) >>,
                 << EntryA([MetaA EXCEPT !.size = 39]) >>,
                 << EntryA([MetaA EXCEPT !.checksum = Md5(2)]) >>,
                 << EntryA(NoMetadata) >>,
                 << EntryA(MetaA), BadEntry >>,
                 << BadEntry, EntryA(MetaA) >> } }

NoPrev == [ran |-> FALSE, force |-> FALSE, saved |-> FALSE,
           started |-> 0, out |-> NoIndex]

\* the indexer and the tree before the first run
InitEngine ==
    /\ \E c \in InitialCaches :
          /\ disk = [f \in FileIds |->
                        CASE f = "A" -> File(1, 1)
                          [] f = "B" -> File(4, 1)
                          [] f = "D" -> File(6, 1)
                          [] f = "J" -> File(5, 1)
                          [] f = "L" -> File(7, 1)
                          [] f = "C" -> c.file]
          /\ cacheData = c.data
    /\ outFile = NoIndex
    /\ clock = 1
    /\ force_refresh = FALSE
    /\ file_cache = EmptyCache
    /\ files = << >>
    /\ database_schema = << >>
    /\ ignore_patterns = DefaultIgnorePatterns
    /\ library_patterns = DefaultLibraryPatterns
    /\ pc = "Idle"
    /\ todo = << >>
    /\ cur = None
    /\ analyzed_count = 0
    /\ cached_count = 0
    /\ skipped_vendor = 0
    /\ skipped_minified = 0
    /\ skipped_oversized = 0
    /\ run = 1
    /\ touches = 0
    /\ outcome = [f \in FileIds |-> "unseen"]
    /\ sampled = {}
    /\ loadKind = "none"
    /\ cacheSave = "none"
    /\ failCause = "none"
    /\ started = 0
    /\ prev = NoPrev

Init == InitEngine /\ call = NoCall

config == <<ignore_patterns, library_patterns>>
counters == <<analyzed_count, cached_count, skipped_vendor, skipped_minified,
              skipped_oversized>>
history == <<run, prev>>

(***************************************************************************)
(* main(): construct the indexer                                           *)
(***************************************************************************)
Construct(force) ==
    /\ pc = "Idle"
    /\ force_refresh' = force
    /\ file_cache' = load_cache(force)
    /\ loadKind' = LoadKindOf(force)
    /\ files' = << >>
    /\ database_schema' = << >>
    /\ started' = touches
    /\ pc' = "Constructed"
    /\ UNCHANGED <<disk, cacheData, outFile, clock, config, todo, cur, counters,
                   touches, outcome, sampled, cacheSave, failCause, history, call>>

(***************************************************************************)
(* scan_directory                                                          *)
(***************************************************************************)
\* rglob yielding every file of the tree twice
rglob_yielding_twice(order) ==
    SelectSeq(order \o order, LAMBDA f : disk[f].exists)

\* self.root_path.rglob('*'): the files that exist, each once, in the order
\* of the traversal
rglob(order) == SelectSeq(order, LAMBDA f : disk[f].exists)

\* a file goes on to the cache lookup whatever the exclusion checks said
KeptWhateverTheVerdict(verdict, language) == language # ""

\* a file goes on to the cache lookup: every exclusion check let it through
\* (none has run `continue`) and it has a language
Kept(verdict, language) == verdict = "" /\ language # ""

\* entering scan_directory: the counters are zeroed and rglob lists the tree
StartScan(order) ==
    /\ pc = "Constructed"
    /\ pc' = "Scanning"
    /\ todo' = rglob(order)
    /\ analyzed_count' = 0
    /\ cached_count' = 0
    /\ skipped_vendor' = 0
    /\ skipped_minified' = 0
    /\ skipped_oversized' = 0
    /\ UNCHANGED <<disk, cacheData, outFile, clock, force_refresh, file_cache,
                   files, database_schema, config, cur, touches, outcome, sampled,
                   loadKind, cacheSave, failCause, started, history, call>>

\* one turn of the loop up to get_language: is_file, the exclusion checks
\* and the language of the file
ClassifyFile ==
    /\ pc = "Scanning"
    /\ cur = None
    /\ todo # << >>
    /\ todo' = Tail(todo)
    /\ LET f == Head(todo)
           verdict == IF disk[f].exists THEN ScanVerdict(f) ELSE "not_file"
           language == get_language(f)
           kept == Kept(verdict, language)
       IN  /\ sampled' = IF disk[f].exists /\ ScanSamples(f)
                         THEN sampled \cup {f} ELSE sampled
           /\ skipped_vendor' = IF verdict \in {"vendor_path", "library"}
                                THEN skipped_vendor + 1 ELSE skipped_vendor
           /\ skipped_minified' = IF verdict = "minified"
                                  THEN skipped_minified + 1 ELSE skipped_minified
           /\ skipped_oversized' = IF verdict = "oversized"
                                   THEN skipped_oversized + 1 ELSE skipped_oversized
           /\ cur' = IF kept THEN f ELSE None
           /\ outcome' = [outcome EXCEPT ![f] =
                             IF kept THEN "classified"
                             ELSE IF verdict = "" THEN "no_language"
                             ELSE verdict]
    /\ UNCHANGED <<disk, cacheData, outFile, clock, force_refresh, file_cache,
                   files, database_schema, config, pc, analyzed_count,
                   cached_count, touches, loadKind, cacheSave, failCause,
                   started, history, call>>

\* the rest of the turn for a file that passed: the cache lookup, and on a
\* miss the content check and the extractor
ProcessFile ==
    /\ pc = "Scanning"
    /\ cur # None
    /\ LET f == cur
           reanalyze == should_reanalyze_file(f)
           result == Extract(f, get_language(f))
       IN  \/ /\ reanalyze = "false"
              /\ files' = Append(files, file_cache[f])
              /\ cached_count' = cached_count + 1
              /\ outcome' = [outcome EXCEPT ![f] = "cache_hit"]
              /\ UNCHANGED <<pc, failCause, analyzed_count, skipped_vendor>>
           \/ /\ reanalyze = "raise"
              /\ pc' = "Failed"
              /\ failCause' = "should_reanalyze_file"
              /\ outcome' = [outcome EXCEPT ![f] = "lookup_raised"]
              /\ UNCHANGED <<files, analyzed_count, cached_count, skipped_vendor>>
           \/ /\ reanalyze = "true"
              /\ is_vendor_by_content(f)
              /\ skipped_vendor' = skipped_vendor + 1
              /\ outcome' = [outcome EXCEPT ![f] = "vendor_content"]
              /\ UNCHANGED <<pc, failCause, files, analyzed_count, cached_count>>
           \/ /\ reanalyze = "true"
              /\ ~is_vendor_by_content(f)
              /\ result.ok
              /\ files' = Append(files, result.info)
              /\ analyzed_count' = analyzed_count + 1
              /\ outcome' = [outcome EXCEPT ![f] =
                                IF result.basic THEN "minimal" ELSE "extracted"]
              /\ UNCHANGED <<pc, failCause, cached_count, skipped_vendor>>
           \/ /\ reanalyze = "true"
              /\ ~is_vendor_by_content(f)
              /\ ~result.ok
              /\ pc' = "Failed"
              /\ failCause' = "extractor"
              /\ outcome' = [outcome EXCEPT ![f] = "extractor_raised"]
              /\ UNCHANGED <<files, analyzed_count, cached_count, skipped_vendor>>
    /\ cur' = None
    /\ UNCHANGED <<disk, cacheData, outFile, clock, force_refresh, file_cache,
                   database_schema, config, todo, skipped_minified,
                   skipped_oversized, touches, sampled, loadKind, cacheSave,
                   started, history, call>>

\* _save_cache, as the write to the cache file goes: "ok", or "open_fails"
\* (the file cannot be opened for writing: nothing is written and the
\* exception is caught)
SaveCacheWays ==
    IF disk[CacheId].exists /\ ~disk[CacheId].readable
    THEN {"open_fails"}
    ELSE {"ok", "open_fails"}

\* _save_cache without its except clause
save_cache_propagates(way) ==
    /\ cacheSave' = way
    /\ failCause' = IF way = "open_fails" THEN "save_cache" ELSE failCause
    /\ IF way = "open_fails"
       THEN UNCHANGED <<disk, cacheData, clock>>
       ELSE /\ clock' = clock + 1
            /\ disk' = [disk EXCEPT ![CacheId] = File(CacheText + clock + 1, clock + 1)]
            /\ cacheData' = cache_data_of(files)

\* _save_cache dumping, beside the records of the run, the loaded entries of
\* the paths the run has no record of
save_cache_keeping_unseen(way) ==
    /\ cacheSave' = way
    /\ UNCHANGED failCause
    /\ IF way = "open_fails"
       THEN UNCHANGED <<disk, cacheData, clock>>
       ELSE LET seen == { files[i].path : i \in 1..Len(files) }
                unseen == SelectSeq(<<"A", "B", "C", "D", "J">>,
                              LAMBDA p : p \in DOMAIN file_cache /\ p \notin seen)
                kept == [i \in 1..Len(unseen) |-> file_cache[unseen[i]]]
            IN  /\ clock' = clock + 1
                /\ disk' = [disk EXCEPT ![CacheId] = File(CacheText + clock + 1, clock + 1)]
                /\ cacheData' = cache_data_of(files \o kept)

\* the end of scan_directory without its call to _save_cache
save_cache_not_called(way) ==
    /\ cacheSave' = "none"
    /\ UNCHANGED <<failCause, disk, cacheData, clock>>

save_cache(way) ==
    /\ cacheSave' = way
    /\ UNCHANGED failCause  \* except Exception: nothing leaves the call
    /\ IF way = "open_fails"
       THEN UNCHANGED <<disk, cacheData, clock>>
       ELSE /\ clock' = clock + 1
            /\ disk' = [disk EXCEPT ![CacheId] = File(CacheText + clock + 1, clock + 1)]
            /\ cacheData' = cache_data_of(files)

\* analyze_database_schema: every exception of the drivers is caught
analyze_database_schema(db) ==
    database_schema' = IF db = "tables" THEN << "t" >> ELSE << >>

\* the end of scan_directory, after the loop: the cache is saved and the
\* database, when one is configured, is introspected
FinishScan(way, db) ==
    /\ pc = "Scanning"
    /\ cur = None
    /\ todo = << >>
    /\ way \in SaveCacheWays
    /\ save_cache(way)
    /\ analyze_database_schema(db)
    /\ pc' = IF failCause' = "none" THEN "Scanned" ELSE "Failed"
    /\ UNCHANGED <<outFile, force_refresh, file_cache, files, config, todo, cur,
                   counters, touches, outcome, sampled, loadKind, started,
                   history, call>>

(***************************************************************************)
(* save_index                                                              *)
(***************************************************************************)
save_index(writable) ==
    /\ pc = "Scanned"
    /\ IF writable
       THEN /\ outFile' = create_summary(files)
            /\ pc' = "Done"
            /\ UNCHANGED failCause
       ELSE /\ pc' = "Failed"
            /\ failCause' = "save_index"
            /\ UNCHANGED outFile
    /\ UNCHANGED <<disk, cacheData, clock, force_refresh, file_cache, files,
                   database_schema, config, todo, cur, counters, touches,
                   outcome, sampled, loadKind, cacheSave, started, history, call>>

(***************************************************************************)
(* The run is complete; main() is invoked again on the same root           *)
(***************************************************************************)
NextRun ==
    /\ pc = "Done"
    /\ run < MaxRuns
    /\ run' = run + 1
    /\ prev' = [ran |-> TRUE, force |-> force_refresh,
                saved |-> cacheSave = "ok", started |-> started, out |-> outFile]
    /\ pc' = "Idle"
    /\ force_refresh' = FALSE
    /\ file_cache' = EmptyCache
    /\ files' = << >>
    /\ database_schema' = << >>
    /\ todo' = << >>
    /\ cur' = None
    /\ analyzed_count' = 0
    /\ cached_count' = 0
    /\ skipped_vendor' = 0
    /\ skipped_minified' = 0
    /\ skipped_oversized' = 0
    /\ outcome' = [f \in FileIds |-> "unseen"]
    /\ sampled' = {}
    /\ loadKind' = "none"
    /\ cacheSave' = "none"
    /\ failCause' = "none"
    /\ started' = touches
    /\ UNCHANGED <<disk, cacheData, outFile, clock, config, touches, call>>

(***************************************************************************)
(* The environment: a.py is edited, made unreadable or deleted, before a   *)
(* run or between the moment the scan has classified it and the moment it  *)
(* reads it                                                                *)
(***************************************************************************)
EnvReady ==
    /\ touches < MaxTouches
    /\ pc = "Idle" \/ (pc = "Scanning" /\ cur = "A")

EnvUnchanged ==
    UNCHANGED <<cacheData, outFile, force_refresh, file_cache, files,
                database_schema, config, pc, todo, cur, counters, outcome,
                sampled, loadKind, cacheSave, failCause, started, history, call>>

EditFile(c) ==
    /\ EnvReady
    /\ disk["A"].exists
    /\ disk["A"].content # c
    /\ disk' = [disk EXCEPT !["A"].content = c, !["A"].mtime = clock + 1]
    /\ clock' = clock + 1
    /\ touches' = touches + 1
    /\ EnvUnchanged

ChmodFile ==
    /\ EnvReady
    /\ disk["A"].exists
    /\ disk["A"].readable
    /\ disk' = [disk EXCEPT !["A"].readable = FALSE]
    /\ touches' = touches + 1
    /\ UNCHANGED clock
    /\ EnvUnchanged

DeleteFile ==
    /\ EnvReady
    /\ disk["A"].exists
    /\ disk' = [disk EXCEPT !["A"] = NoFile]
    /\ touches' = touches + 1
    /\ UNCHANGED clock
    /\ EnvUnchanged

Next ==
    \/ \E force \in BOOLEAN : Construct(force)
    \/ \E order \in TraversalOrders : StartScan(order)
    \/ ClassifyFile
    \/ ProcessFile
    \/ \E way \in {"ok", "open_fails"}, db \in {"none", "tables"} :
          FinishScan(way, db)
    \/ \E writable \in BOOLEAN : save_index(writable)
    \/ NextRun
    \/ \E c \in EditedContents : EditFile(c)
    \/ ChmodFile
    \/ DeleteFile

Spec == Init /\ [][Next]_vars

(***************************************************************************)
(* Functions of the engine called on their own, on arguments drawn from    *)
(* bounded sets                                                            *)
(***************************************************************************)
\* the longest record list handed to generate_dependency_map
MaxRecords == 3

\* the import lists of the records: none, the module b, the dotted name a.b,
\* b beside a module of the standard library, b twice, and dat (a part of the
\* stem of data.json)
ImportLists ==
    { << >>,
      << <<"b">> >>,
      << <<"a",".","b">> >>,
      << <<"b">>, <<"o","s">> >>,
      << <<"b">>, <<"b">> >>,
      << <<"d","a","t">> >> }

\* the records self.files may hold for the source files of the tree
RecordUniverse ==
    { [path |-> f, language |-> get_language(f), imports |-> imps,
       functions |-> << >>, loc |-> 1, metadata |-> NoMetadata] :
        f \in SourceIds, imps \in ImportLists }

\* the lists self.files may be after a scan: at most MaxRecords records, no
\* path twice, in any order
RecordLists ==
    UNION { { fs \in [1..n -> RecordUniverse] :
                \A i, j \in 1..n : fs[i].path = fs[j].path => i = j } :
            n \in 0..MaxRecords }

\* the longest module body and the longest file content handed to an extractor
MaxStatements == 3

\* a node of the tree ast.parse returns: its kind (Import, FunctionDef,
\* AsyncFunctionDef, ClassDef, Assign), its name, and the statements of its body
PyNode(kind, name, inner) == [kind |-> kind, name |-> name, inner |-> inner]

\* the top-level statements of a Python module:
\*   import os            import re            x = ...
\*   def f(): ...         def f(): def g(): ...        def f(): import re
\*   async def h(): ...   class K: def m(self): ...
PyStatements ==
    { PyNode("import", "os", << >>),
      PyNode("import", "re", << >>),
      PyNode("assign", "x", << >>),
      PyNode("def", "f", << >>),
      PyNode("def", "f", << PyNode("def", "g", << >>) >>),
      PyNode("def", "f", << PyNode("import", "re", << >>) >>),
      PyNode("async_def", "h", << >>),
      PyNode("class", "K", << PyNode("def", "m", << >>) >>) }

\* the module bodies ast.parse may return
PyBodies == UNION { [1..n -> PyStatements] : n \in 0..MaxStatements }

\* the names of the statements of one kind, in the order of the body
NamesOfKind(body, kind) ==
    LET sel == SelectSeq(body, LAMBDA st : st.kind = kind)
    IN  [i \in 1..Len(sel) |-> sel[i].name]

\* the statements inside the statements of the body, in the order of the body
RECURSIVE NestedNodes(_)
NestedNodes(body) ==
    IF body = << >> THEN << >>
    ELSE [j \in 1..Len(Head(body).inner) |-> [node |-> Head(body).inner[j], top |-> FALSE]]
            \o NestedNodes(Tail(body))

\* ast.walk(tree), breadth first: the statements of the module body, then the
\* statements inside them; top tells the nodes that are elements of tree.body
Walked(body) ==
    [i \in 1..Len(body) |-> [node |-> body[i], top |-> TRUE]] \o NestedNodes(body)

\* _is_top_level: node in tree.body (nodes compare by identity)
is_top_level(w) == w.top

\* the loop over ast.walk(tree) of analyze_python_file: every import, every
\* top-level FunctionDef, ClassDef and Assign is appended to its list as it
\* is met
ast_walk(body) ==
    LET nodes == Walked(body)
        of(kind) == SelectSeq(nodes, LAMBDA w : w.node.kind = kind)
        top(kind) == SelectSeq(nodes, LAMBDA w : w.node.kind = kind /\ is_top_level(w))
    IN  [imports |-> [i \in 1..Len(of("import")) |-> of("import")[i].node.name],
         functions |-> [i \in 1..Len(top("def")) |-> top("def")[i].node.name],
         classes |-> [i \in 1..Len(top("class")) |->
                        [name |-> top("class")[i].node.name,
                         methods |-> NamesOfKind(top("class")[i].node.inner, "def")]],
         variables |-> [i \in 1..Len(top("assign")) |-> top("assign")[i].node.name]]

\* the component names of the contents: one capitalised, one not
ComponentName == <<"A","p","p">>
HelperName == <<"h","e","l","p","e","r">>

\* the ways a function is declared in a React file:
\*   const X = () => {                       "const_arrow"
\*   function X() { return (                 "function"
\*   export default function X() { return (  "export_default_function"
\*   export function X() { return (          "export_function"
ReactForms ==
    {"const_arrow", "function", "export_default_function", "export_function"}

\* the forms the k-th regular expression of _extract_react_components matches
PatternForms(k) ==
    CASE k = 1 -> {"const_arrow"}
      [] k = 2 -> {"function", "export_default_function", "export_function"}
      [] k = 3 -> {"export_default_function"}
      [] k = 4 -> {"export_function"}

ReactDeclarations ==
    { [form |-> fm, name |-> nm] : fm \in ReactForms, nm \in {ComponentName, HelperName} }

\* the contents of a React file, as the declarations in it
ReactContents == UNION { [1..n -> ReactDeclarations] : n \in 0..MaxStatements }

\* comp_name[0].isupper()
IsUpper(ch) == \E i \in 1..Len(UpperAlpha) : UpperAlpha[i] = ch

\* the names the k-th pattern finds in the content, capitalised ones only
PatternMatches(content, k) ==
    LET sel == SelectSeq(content, LAMBDA d : d.form \in PatternForms(k) /\ IsUpper(d.name[1]))
    IN  [i \in 1..Len(sel) |-> sel[i].name]

\* _extract_react_components: the names of the components list, pattern after
\* pattern, each match appended
extract_react_components(content) ==
    PatternMatches(content, 1) \o PatternMatches(content, 2)
        \o PatternMatches(content, 3) \o PatternMatches(content, 4)

\* the export statements of a React file
ExportDefault == <<"e","x","p","o","r","t"," ","d","e","f","a","u","l","t"," ","A","p","p",";">>
ExportDefaultFunction == <<"e","x","p","o","r","t"," ","d","e","f","a","u","l","t"," ","f","u","n","c","t","i","o","n"," ","A","p","p","(",")"," ","{">>
ExportNamed == <<"e","x","p","o","r","t"," ","{"," ","A","p","p"," ","}",";">>
ExportFunction == <<"e","x","p","o","r","t"," ","f","u","n","c","t","i","o","n"," ","A","p","p","(",")"," ","{">>
ExportDefaultOther == <<"e","x","p","o","r","t"," ","d","e","f","a","u","l","t"," ","N","a","v",";">>
ConstDeclaration == <<"c","o","n","s","t"," ","A","p","p"," ","="," ","1",";">>

ExportStatements ==
    { ExportDefault, ExportDefaultFunction, ExportNamed, ExportFunction,
      ExportDefaultOther, ConstDeclaration }

\* the contents of a file, as its lines
ExportContents == UNION { [1..n -> ExportStatements] : n \in 0..MaxStatements }

\* '\n'.join(lines)
RECURSIVE JoinLines(_)
JoinLines(lines) ==
    IF lines = << >> THEN << >>
    ELSE IF Len(lines) = 1 THEN lines[1]
    ELSE lines[1] \o <<"\n">> \o JoinLines(Tail(lines))

\* _get_export_type
get_export_type(content, comp_name) ==
    IF \/ Contains(content, <<"e","x","p","o","r","t"," ","d","e","f","a","u","l","t"," ">> \o comp_name)
       \/ Contains(content, <<"e","x","p","o","r","t"," ","d","e","f","a","u","l","t"," ","f","u","n","c","t","i","o","n"," ">> \o comp_name)
    THEN "default"
    ELSE IF \/ Contains(content, <<"e","x","p","o","r","t"," ","{"," ">> \o comp_name \o <<" ","}">>)
            \/ Contains(content, <<"e","x","p","o","r","t"," ","f","u","n","c","t","i","o","n"," ">> \o comp_name)
    THEN "named"
    ELSE IF /\ Contains(content, <<"e","x","p","o","r","t"," ","d","e","f","a","u","l","t">>)
            /\ Contains(content, <<"e","x","p","o","r","t"," ","{"," ">> \o comp_name \o <<" ","}">>)
    THEN "both"
    ELSE "none"

\* the i-th name of a long list
Name(i) == [j \in 1..i |-> "m"]

\* n names
Names(n) == [i \in 1..n |-> Name(i)]

\* the lengths of the lists of a record: empty, at the cap of ten, at the cap
\* of fifteen, and over the largest cap
ListLengths == {0, 10, 15, 21}

\* a record of the file f whose every list, the lists inside its type symbols
\* included, has n items, and whose line count is n
RichRecord(f, n) ==
    [path |-> f, language |-> get_language(f), loc |-> n, metadata |-> NoMetadata,
     imports |-> Names(n), functions |-> Names(n), variables |-> Names(n),
     classes |-> [i \in 1..n |-> [name |-> Name(i), methods |-> Names(n)]],
     components |-> Names(n),
     php_classes |-> [i \in 1..n |-> [name |-> Name(i), methods |-> Names(n),
                                      properties |-> Names(n)]],
     includes |-> Names(n), defines |-> Names(n),
     structs |-> [i \in 1..n |-> [name |-> Name(i), members |-> Names(n)]],
     cpp_classes |-> [i \in 1..n |-> [name |-> Name(i), methods |-> Names(n)]],
     namespaces |-> Names(n)]

RichRecordUniverse == { RichRecord(f, n) : f \in SourceIds, n \in ListLengths }

\* the lists of such records self.files may be: no path twice, in any order
RichRecordLists ==
    UNION { { fs \in [1..n -> RichRecordUniverse] :
                \A i, j \in 1..n : fs[i].path = fs[j].path => i = j } :
            n \in 0..MaxRecords }

\* the patterns handed to add_ignore_pattern: two of the defaults and a new one
IgnorePatternInputs ==
    { <<"*",".","l","o","g">>, <<"M","a","k","e","f","i","l","e">>,
      <<"*",".","p","y">> }

\* the patterns handed to add_library_pattern: one of the defaults and a new one
LibraryPatternInputs == { <<"j","q","u","e","r","y">>, <<"d","a","t","a">> }

\* what the two classifiers say of every file of the tree
Classification ==
    [f \in FileIds |-> [verdict |-> ScanVerdict(f), ignored |-> should_ignore(f)]]

\* the calls to make: the function and its arguments
PendingCalls ==
    { [fn |-> "generate_dependency_map", returned |-> FALSE, files |-> fs] :
        fs \in RecordLists }
    \cup
    { [fn |-> "analyze_python_file", returned |-> FALSE, body |-> b] :
        b \in PyBodies }
    \cup
    { [fn |-> "_extract_react_components", returned |-> FALSE, content |-> c] :
        c \in ReactContents }
    \cup
    { [fn |-> "_get_export_type", returned |-> FALSE, lines |-> ls,
       comp_name |-> ComponentName] : ls \in ExportContents }
    \cup
    { [fn |-> "create_summary", returned |-> FALSE, files |-> fs] :
        fs \in RecordLists \cup RichRecordLists }
    \cup
    { [fn |-> "add_ignore_pattern", returned |-> FALSE, pattern |-> p] :
        p \in IgnorePatternInputs }
    \cup
    { [fn |-> "add_library_pattern", returned |-> FALSE, pattern |-> p] :
        p \in LibraryPatternInputs }

\* generate_dependency_map with self.files = call.files
CallResolver ==
    /\ call.fn = "generate_dependency_map"
    /\ ~call.returned
    /\ call' = [fn |-> call.fn, returned |-> TRUE, files |-> call.files,
                result |-> generate_dependency_map(call.files)]
    /\ UNCHANGED engine

\* the walk of analyze_python_file over the module body call.body
CallPythonWalk ==
    /\ call.fn = "analyze_python_file"
    /\ ~call.returned
    /\ call' = [fn |-> call.fn, returned |-> TRUE, body |-> call.body,
                result |-> ast_walk(call.body)]
    /\ UNCHANGED engine

\* _extract_react_components on the content call.content
CallReactComponents ==
    /\ call.fn = "_extract_react_components"
    /\ ~call.returned
    /\ call' = [fn |-> call.fn, returned |-> TRUE, content |-> call.content,
                result |-> extract_react_components(call.content)]
    /\ UNCHANGED engine

\* _get_export_type on the text of the lines call.lines
CallExportType ==
    /\ call.fn = "_get_export_type"
    /\ ~call.returned
    /\ call' = [fn |-> call.fn, returned |-> TRUE, lines |-> call.lines,
                comp_name |-> call.comp_name,
                result |-> get_export_type(JoinLines(call.lines), call.comp_name)]
    /\ UNCHANGED engine

\* create_summary with self.files = call.files
CallSummary ==
    /\ call.fn = "create_summary"
    /\ ~call.returned
    /\ call' = [fn |-> call.fn, returned |-> TRUE, files |-> call.files,
                result |-> create_summary(call.files)]
    /\ UNCHANGED engine

\* the state of the indexer and of the tree but for the two pattern sets
engine_but_patterns ==
    <<disk, cacheData, outFile, clock, force_refresh, file_cache, files,
      database_schema, pc, todo, cur, counters, run, touches, outcome, sampled,
      loadKind, cacheSave, failCause, started, prev>>

\* add_ignore_pattern(call.pattern); remove_ignore_pattern is called next.
\* The call keeps what the caller saw before the addition.
add_ignore_pattern ==
    /\ call.fn = "add_ignore_pattern"
    /\ ~call.returned
    /\ ignore_patterns' = ignore_patterns \cup {call.pattern}
    /\ UNCHANGED <<engine_but_patterns, library_patterns>>
    /\ call' = [fn |-> "remove_ignore_pattern", returned |-> FALSE,
                pattern |-> call.pattern,
                present |-> call.pattern \in ignore_patterns,
                patterns |-> ignore_patterns,
                before |-> Classification]

\* remove_ignore_pattern leaving the set as it is
remove_ignore_pattern_keeps ==
    /\ call.fn = "remove_ignore_pattern"
    /\ ~call.returned
    /\ ignore_patterns' = ignore_patterns
    /\ call' = [fn |-> call.fn, returned |-> TRUE, pattern |-> call.pattern,
                present |-> call.present, patterns |-> call.patterns,
                before |-> call.before, added |-> Classification]
    /\ UNCHANGED <<engine_but_patterns, library_patterns>>

\* remove_ignore_pattern(call.pattern): set.discard.  The call keeps what the
\* caller saw while the pattern was in the set.
remove_ignore_pattern ==
    /\ call.fn = "remove_ignore_pattern"
    /\ ~call.returned
    /\ ignore_patterns' = ignore_patterns \ {call.pattern}
    /\ call' = [fn |-> call.fn, returned |-> TRUE, pattern |-> call.pattern,
                present |-> call.present, patterns |-> call.patterns,
                before |-> call.before, added |-> Classification]
    /\ UNCHANGED <<engine_but_patterns, library_patterns>>

\* add_library_pattern(call.pattern); remove_library_pattern is called next
add_library_pattern ==
    /\ call.fn = "add_library_pattern"
    /\ ~call.returned
    /\ library_patterns' = library_patterns \cup {call.pattern}
    /\ UNCHANGED <<engine_but_patterns, ignore_patterns>>
    /\ call' = [fn |-> "remove_library_pattern", returned |-> FALSE,
                pattern |-> call.pattern,
                present |-> call.pattern \in library_patterns,
                patterns |-> library_patterns,
                before |-> Classification]

\* remove_library_pattern(call.pattern): set.discard
remove_library_pattern ==
    /\ call.fn = "remove_library_pattern"
    /\ ~call.returned
    /\ library_patterns' = library_patterns \ {call.pattern}
    /\ call' = [fn |-> call.fn, returned |-> TRUE, pattern |-> call.pattern,
                present |-> call.present, patterns |-> call.patterns,
                before |-> call.before, added |-> Classification]
    /\ UNCHANGED <<engine_but_patterns, ignore_patterns>>

\* an indexer on a tree without a cache file, not run, and a call to make
InitCalls ==
    /\ InitEngine
    /\ ~disk[CacheId].exists
    /\ call \in PendingCalls

NextCalls ==
    \/ CallResolver
    \/ CallPythonWalk
    \/ CallReactComponents
    \/ CallExportType
    \/ CallSummary
    \/ add_ignore_pattern
    \/ remove_ignore_pattern
    \/ add_library_pattern
    \/ remove_library_pattern

SpecCalls == InitCalls /\ [][NextCalls]_vars

(***************************************************************************)
(* Properties                                                              *)
(***************************************************************************)
Range(xs) == { xs[i] : i \in 1..Len(xs) }

\* the (mtime, size, checksum) triple self.file_cache stores for f equals the
\* triple computed from the file on disk
StoredEqualsFresh(f) ==
    /\ HasStored(f)
    /\ get_file_metadata(f).ok
    /\ Triple(file_cache[f].metadata) = Triple(get_file_metadata(f))

\* the fields in which the stored and the fresh metadata of f differ
DifferingFields(f) ==
    LET cached == file_cache[f].metadata
        fresh == get_file_metadata(f)
    IN  { k \in {"mtime", "size", "checksum"} :
            \/ k = "mtime" /\ cached.mtime # fresh.mtime
            \/ k = "size" /\ cached.size # fresh.size
            \/ k = "checksum" /\ cached.checksum # fresh.checksum }

\* C1: in every state a run can be in, whatever the cache and the
\* force-refresh flag, _should_reanalyze_file(f) returns false if and only if
\* the triple stored in the cache for f equals the freshly computed triple.
C1_FalseIffTripleEqual ==
    \A f \in FileIds : (should_reanalyze_file(f) = "false") <=> StoredEqualsFresh(f)

\* the scan served a file from the cache, and its stored triple is the fresh one
C1_Witness ==
    \E f \in FileIds :
        /\ outcome[f] = "cache_hit"
        /\ should_reanalyze_file(f) = "false"
        /\ StoredEqualsFresh(f)

\* C2: _should_reanalyze_file(f) returns true whenever the flag is set,
\* whenever the cache holds no entry with a metadata for f, and whenever the
\* stored and the fresh metadata differ in at least one field, one alone
\* included.
C2_TrueWhenForcedMissingOrChanged ==
    \A f \in FileIds :
        /\ force_refresh => should_reanalyze_file(f) = "true"
        /\ ~HasStored(f) => should_reanalyze_file(f) = "true"
        /\ (HasStored(f) /\ get_file_metadata(f).ok /\ DifferingFields(f) # {})
               => should_reanalyze_file(f) = "true"

\* the scan extracted a file again whose stored metadata differed from the
\* disk in the checksum alone
C2_Witness ==
    \E f \in FileIds :
        /\ outcome[f] = "extracted"
        /\ ~force_refresh
        /\ HasStored(f)
        /\ get_file_metadata(f).ok
        /\ DifferingFields(f) = {"checksum"}

\* the run follows a complete run on the same root, neither run has the flag
\* set, the first run saved its cache, and nothing changed the tree since the
\* first run was constructed
SecondQuietRun ==
    /\ prev.ran
    /\ prev.saved
    /\ ~prev.force
    /\ ~force_refresh
    /\ touches = prev.started

\* C3: the second of two consecutive runs on an unchanged tree, force-refresh
\* unset, re-extracts no file: every record of the run comes from the cache.
C3_SecondRunExtractsNothing ==
    (SecondQuietRun /\ pc \in {"Scanned", "Done"})
        => (analyzed_count = 0 /\ cached_count = Len(files))

\* C4: two runs on an unmodified tree write the same files section (as a set
\* of per-file summaries) and the same dependency_map.
C4_SameIndexTwice ==
    (prev.ran /\ touches = prev.started /\ pc = "Done")
        => /\ Range(outFile.files) = Range(prev.out.files)
           /\ outFile.dependency_map = prev.out.dependency_map

\* C5: after a cache file that is missing, unreadable or malformed, the
\* in-memory cache is empty and the scan reuses no entry.
C5_LoadFailsOpen ==
    loadKind \in {"missing", "unreadable", "invalid_json", "bad_entry"}
        => (DOMAIN file_cache = {} /\ cached_count = 0)

\* C6: no extractor call lets an exception reach the scan: each returns one
\* record, the minimal one when the extraction fails.
C6_ExtractorNeverRaises ==
    /\ failCause # "extractor"
    /\ \A i \in 1..Len(files) :
          outcome[files[i].path] = "minimal" => IsMinimal(files[i])

\* C7: a failure to read a candidate file stops no scan: no turn of the loop
\* raises, whatever the file it is at.
C7_ReadFailureSkipsFile ==
    \A f \in FileIds : outcome[f] \notin {"lookup_raised", "extractor_raised"}

\* C8: the run reaches Failed only when writing the final index fails.
C8_FailedOnlyOnIndexWrite ==
    pc = "Failed" => failCause = "save_index"

\* C9: when the write of the cache file fails, _save_cache raises nothing and
\* leaves self.files as it is; the run goes on to save_index.
C9_CacheWriteFailureNotFatal ==
    [][(cacheSave # "open_fails" /\ cacheSave' = "open_fails")
          => (failCause' = "none" /\ pc' = "Scanned" /\ files' = files)]_vars

\* the cache could not be written and the index of the run's records was
\* written all the same
C9_Witness ==
    /\ cacheSave = "open_fails"
    /\ pc = "Done"
    /\ files # << >>
    /\ outFile = create_summary(files)

\* the reason of the first matching check in the order the specification
\* gives: denylist, vendor path, library name, content sampling, size
VerdictInStatedOrder(f) ==
    IF is_basic_ignore(f) THEN "basic"
    ELSE IF is_vendor_file(f) THEN "vendor_path"
    ELSE IF is_known_library(f) THEN "library"
    ELSE IF is_minified_file(f) THEN "minified"
    ELSE IF is_oversized_file(f) THEN "oversized"
    ELSE ""

\* C10: the checks run in the order denylist, vendor path, library name,
\* content sampling, size: the reason recorded is that of the first match in
\* this order, and a file one of the three string checks matches is never
\* opened for content sampling.
C10_ChecksInStatedOrder ==
    \A f \in FileIds :
        /\ f \in sampled =>
              ~(is_basic_ignore(f) \/ is_vendor_file(f) \/ is_known_library(f))
        /\ outcome[f] \in {"basic", "vendor_path", "library", "minified", "oversized"}
              => outcome[f] = VerdictInStatedOrder(f)

\* the relative paths of the records of the run
RecordPaths == { files[i].path : i \in 1..Len(files) }

\* the scan of this run has been at f
Visited(f) == outcome[f] # "unseen"

\* the byte size of f exceeds the configured maximum
ExceedsMax(f) ==
    disk[f].exists /\ ContentOf(disk[f].content).size > max_vendor_file_size

\* a check that stands before the size check in the chain matches f
MatchedBeforeSize(f) ==
    \/ is_basic_ignore(f)
    \/ is_vendor_file(f)
    \/ is_minified_file(f)
    \/ is_known_library(f)

\* C11 as stated: every file the scan has been at whose size exceeds the
\* maximum is absent from files and has added one to the oversized tally,
\* whatever its name, extension and content.
C11_EveryOversizedFileTallied ==
    /\ \A f \in FileIds : (Visited(f) /\ ExceedsMax(f)) => f \notin RecordPaths
    /\ skipped_oversized =
           Cardinality({ f \in FileIds : Visited(f) /\ ExceedsMax(f) })

\* C11, amended: every file the scan has been at whose size exceeds the
\* maximum is absent from files; it adds one to the oversized tally exactly
\* when no check that stands before the size check in the chain matches it.
C11_OversizedTalliedUnlessMatchedEarlier ==
    /\ \A f \in FileIds : (Visited(f) /\ ExceedsMax(f)) => f \notin RecordPaths
    /\ skipped_oversized =
           Cardinality({ f \in FileIds :
                           Visited(f) /\ ExceedsMax(f) /\ ~MatchedBeforeSize(f) })

\* the scan is over; it counted the large data file as oversized and the large
\* library bundle as minified
C11_Witness ==
    /\ pc = "Scanned"
    /\ outcome["D"] = "oversized"
    /\ outcome["J"] = "minified"
    /\ ExceedsMax("D") /\ ExceedsMax("J")
    /\ skipped_oversized = 1
    /\ skipped_minified = 1

\* generate_dependency_map has returned
ResolverReturned == call.fn = "generate_dependency_map" /\ call.returned

\* the file-name stem of the file of a record
Stem(r) == PathStem(RelPath(r.path))

\* the import string ends with, or contains, the stem of the record's file
Matches(import_name, r) ==
    EndsWith(import_name, Stem(r)) \/ Contains(import_name, Stem(r))

\* C12 as stated: when the record of A holds an import string that ends in the
\* stem of another record's file B, dependency_map[A] holds the path of B for
\* that import, whatever the other records and the order of the list.
C12_ImportEndingInStemResolvesToThatFile ==
    ResolverReturned =>
        \A i, j \in 1..Len(call.files) :
            \A k \in 1..Len(call.files[i].imports) :
                (i # j /\ EndsWith(call.files[i].imports[k], Stem(call.files[j])))
                    => call.result[call.files[i].path][k] = RelPath(call.files[j].path)

\* C13: generate_dependency_map returns one key per record path and, for each
\* record, one reference per import string in import order: the path of a
\* record whose stem the import ends with or contains when there is one,
\* otherwise the import string itself.
C13_OneReferencePerImport ==
    ResolverReturned =>
        /\ DOMAIN call.result = { call.files[i].path : i \in 1..Len(call.files) }
        /\ \A i \in 1..Len(call.files) :
              LET r == call.files[i]
                  deps == call.result[r.path]
              IN  /\ Len(deps) = Len(r.imports)
                  /\ \A k \in 1..Len(r.imports) :
                        IF \E j \in 1..Len(call.files) : Matches(r.imports[k], call.files[j])
                        THEN \E j \in 1..Len(call.files) :
                                /\ Matches(r.imports[k], call.files[j])
                                /\ deps[k] = RelPath(call.files[j].path)
                        ELSE deps[k] = r.imports[k]

\* a record importing b and os, beside the record of b.py: the first import is
\* resolved to b.py and the second is kept verbatim
C13_Witness ==
    /\ ResolverReturned
    /\ \E i, j \in 1..Len(call.files) :
          /\ call.files[j].path = "B"
          /\ call.files[i].imports = << <<"b">>, <<"o","s">> >>
          /\ call.result[call.files[i].path] = << RelPath("B"), <<"o","s">> >>

\* the record list in the order p
Reordered(fs, p) == [i \in 1..Len(fs) |-> fs[p[i]]]

\* C14: the result does not depend on the traversal order: the records of a
\* scan taken in any other order give the same dependency_map.
C14_SameMapInEveryOrder ==
    ResolverReturned =>
        \A p \in Permutations(1..Len(call.files)) :
            generate_dependency_map(Reordered(call.files, p)) = call.result

\* the paths that have an entry in the text of the cache file
PersistedPaths ==
    IF disk[CacheId].exists /\ cacheData.json
    THEN { cacheData.entries[i].data.path : i \in 1..Len(cacheData.entries) }
    ELSE {}

\* the scan of the run is over and its flag was unset
ScanOverUnforced == pc \in {"Scanned", "Done"} /\ ~force_refresh

\* the cache loaded by the run held an entry for f, f is no longer on disk and
\* the scan has not seen it
StaleEntry(f) ==
    /\ f \in DOMAIN file_cache
    /\ ~disk[f].exists
    /\ outcome[f] = "unseen"

\* C15 as stated: an entry for a file no longer on disk is never pruned: after
\* a run with the flag unset that has not seen the file, the persisted cache
\* still holds the entry.
C15_StaleEntryNeverPruned ==
    ScanOverUnforced => \A f \in FileIds : StaleEntry(f) => f \in PersistedPaths

\* C15, amended: a cache file the run has written holds one entry per record
\* of the run and no other: the entry of a file the run has not seen is gone.
\* (When the write fails the file, and the entry in it, stay as they were.)
C15_PersistedCacheHoldsRunRecordsOnly ==
    (pc \in {"Scanned", "Done"} /\ cacheSave = "ok")
        => /\ PersistedPaths = RecordPaths
           /\ \A f \in FileIds : StaleEntry(f) => f \notin PersistedPaths

\* a.py had an entry in the loaded cache, was deleted before the run, and the
\* cache file written by the run has no entry for it
C15_Witness ==
    /\ ScanOverUnforced
    /\ cacheSave = "ok"
    /\ StaleEntry("A")
    /\ "A" \notin PersistedPaths
    /\ "B" \in PersistedPaths

\* the extraction of the content f has on disk fails: the Python extractor
\* cannot parse it and degrades to the minimal record
ExtractionFails(f) ==
    /\ disk[f].exists
    /\ get_language(f) = "python"
    /\ ~ContentOf(disk[f].content).parses

\* C16: a file whose extraction failed and degraded to the minimal record gets
\* no reusable cache entry: no scan serves from the cache a file whose content
\* on disk makes the extraction fail.
C16_DegradedRecordNotServedFromCache ==
    \A f \in FileIds : outcome[f] = "cache_hit" => ~ExtractionFails(f)

\* the exclusion checks of the scan
ExclusionReasons == {"basic", "vendor_path", "minified", "library", "oversized"}

\* C17: a file the exclusion checks match is never looked up in the cache,
\* never extracted and never in files, whatever the loaded cache holds for it:
\* the scan leaves it at its skip reason.
C17_ExcludedFileNeverReachesCache ==
    \A f \in FileIds :
        (Visited(f) /\ disk[f].exists /\ ScanVerdict(f) # "")
            => /\ outcome[f] = ScanVerdict(f)
               /\ cur # f
               /\ f \notin RecordPaths

\* the scan is over; the loaded cache held an entry for data.json whose triple
\* matches the file on disk, and the scan skipped the file as oversized
C17_Witness ==
    /\ pc = "Scanned"
    /\ outcome["D"] = "oversized"
    /\ ~force_refresh
    /\ StoredEqualsFresh("D")
    /\ cached_count > 0
    /\ "D" \notin RecordPaths

\* C18: every record of files has a non-empty language tag and a line count
\* that is not negative, and no two records have the same relative path.
C18_RecordsWellFormed ==
    /\ \A i \in 1..Len(files) : files[i].language # "" /\ files[i].loc >= 0
    /\ \A i, j \in 1..Len(files) : files[i].path = files[j].path => i = j

\* the scan is over with a record served from the cache, a record extracted in
\* full and a minimal record
C18_Witness ==
    /\ pc = "Scanned"
    /\ \E f, g, h \in RecordPaths :
          /\ outcome[f] = "cache_hit"
          /\ outcome[g] = "extracted"
          /\ outcome[h] = "minimal"

\* a list that holds no name twice
NoDuplicates(xs) == \A i, j \in 1..Len(xs) : xs[i] = xs[j] => i = j

\* C19: every symbol-name list of a record an extractor produces holds each
\* name at most once, also when the source declares or references a name
\* several times or when several patterns match the same declaration.
C19_SymbolListsDeduplicated ==
    /\ (call.fn = "analyze_python_file" /\ call.returned)
          => /\ NoDuplicates(call.result.imports)
             /\ NoDuplicates(call.result.functions)
             /\ NoDuplicates(call.result.variables)
    /\ (call.fn = "_extract_react_components" /\ call.returned)
          => NoDuplicates(call.result)

\* the statement is one of the lines of the file
HasLine(lines, statement) == \E i \in 1..Len(lines) : lines[i] = statement

\* the file holds a default export of the component
HasDefaultExport(lines) ==
    HasLine(lines, ExportDefault) \/ HasLine(lines, ExportDefaultFunction)

\* the file holds a named export of the component
HasNamedExport(lines) ==
    HasLine(lines, ExportNamed) \/ HasLine(lines, ExportFunction)

\* the classification the specification gives
StatedExportType(lines) ==
    IF HasDefaultExport(lines) /\ HasNamedExport(lines) THEN "both"
    ELSE IF HasDefaultExport(lines) THEN "default"
    ELSE IF HasNamedExport(lines) THEN "named"
    ELSE "none"

\* C20: _get_export_type gives default when only a default export of the
\* component is present, named when only a named export is, both when both
\* are, and none when neither is.
C20_ExportTypeAsStated ==
    (call.fn = "_get_export_type" /\ call.returned)
        => call.result = StatedExportType(call.lines)

\* the names of the functions defined directly in the module body, in order
TopLevelFunctions(body) ==
    LET sel == SelectSeq(body, LAMBDA st : st.kind \in {"def", "async_def"})
    IN  [i \in 1..Len(sel) |-> sel[i].name]

\* C21: the functions list of the record of a Python file holds exactly the
\* functions defined directly in the module body, one per function, and none
\* of the functions nested in a function or in a class.
C21_FunctionsAreTheTopLevelOnes ==
    (call.fn = "analyze_python_file" /\ call.returned)
        => call.result.functions = TopLevelFunctions(call.body)

\* a call to create_summary has returned
SummaryReturned == call.fn = "create_summary" /\ call.returned

\* the set of the positions of the records of one language
OfLanguage(fs, lang) == { i \in 1..Len(fs) : fs[i].language = lang }

\* the sum of v over the finite set S
RECURSIVE SumOver(_, _)
SumOver(S, v) ==
    IF S = {} THEN 0
    ELSE LET x == CHOOSE y \in S : TRUE
         IN  v[x] + SumOver(S \ {x}, v)

\* C22: in the summary, total_files is the number of records, total_loc the
\* sum of their line counts, every language present has an entry whose files
\* and loc are the count and the line sum of its records, and the entries'
\* files and loc sum to total_files and total_loc.
C22_TotalsAgreeWithRecords ==
    SummaryReturned =>
        LET fs == call.files
            po == call.result.project_overview
            locs == [i \in 1..Len(fs) |-> fs[i].loc]
            langs == DOMAIN po.languages
        IN  /\ po.total_files = Len(fs)
            /\ po.total_loc = SumOver(1..Len(fs), locs)
            /\ langs = { fs[i].language : i \in 1..Len(fs) }
            /\ \A lang \in langs :
                  /\ po.languages[lang].files = Cardinality(OfLanguage(fs, lang))
                  /\ po.languages[lang].loc = SumOver(OfLanguage(fs, lang), locs)
            /\ SumOver(langs, [l \in langs |-> po.languages[l].files]) = po.total_files
            /\ SumOver(langs, [l \in langs |-> po.languages[l].loc]) = po.total_loc

\* a summary of records of two languages, two of them of the same language
\* and with different line counts
C22_Witness ==
    /\ SummaryReturned
    /\ Cardinality(DOMAIN call.result.project_overview.languages) = 2
    /\ \E i, j \in 1..Len(call.files) :
          /\ i # j
          /\ call.files[i].language = call.files[j].language
          /\ call.files[i].loc # call.files[j].loc
          /\ call.files[i].loc > 0
          /\ call.files[j].loc > 0

\* the cap of the list under a key of a summary entry
CapOf(key) ==
    CASE key \in {"functions"} -> 20
      [] key \in {"react_components", "includes"} -> 15
      [] OTHER -> 10

\* the cap of a list inside a type symbol
InnerCapOf(field) == IF field = "methods" THEN 15 ELSE 10

\* the lists inside the type symbols under a key
InnerFields(key) ==
    CASE key \in {"classes", "cpp_classes"} -> {"methods"}
      [] key = "php_classes" -> {"methods", "properties"}
      [] key = "structs" -> {"members"}
      [] OTHER -> {}

\* kept is xs cut after at most cap items
IsCappedPrefix(kept, xs, cap) ==
    /\ Len(kept) <= cap
    /\ Len(kept) <= Len(xs)
    /\ \A i \in 1..Len(kept) : kept[i] = xs[i]
    /\ Len(kept) = cap \/ Len(kept) = Len(xs)

\* C23: create_summary gives one entry per record, in the order of the
\* records, and every list of an entry is the record's list cut at its cap
\* (10 imports, 20 functions, 10 classes of 15 methods, 15 components, 10 PHP
\* classes of 15 methods and 10 properties, 15 includes, 10 defines, 10
\* structs of 10 members, 10 C++ classes of 15 methods, 10 namespaces, 10
\* variables): the kept items are a prefix of the record's list.
C23_EntriesCappedPrefixes ==
    SummaryReturned =>
        LET fs == call.files
            es == call.result.files
        IN  /\ Len(es) = Len(fs)
            /\ \A i \in 1..Len(fs) :
                  /\ es[i].path = fs[i].path
                  /\ \A key \in DOMAIN es[i] \cap SummaryListKeys :
                        LET kept == es[i][key]
                            xs == FieldOf(fs[i], SummaryField(key))
                        IN  IF InnerFields(key) = {}
                            THEN IsCappedPrefix(kept, xs, CapOf(key))
                            ELSE /\ Len(kept) <= CapOf(key)
                                 /\ Len(kept) <= Len(xs)
                                 /\ Len(kept) = CapOf(key) \/ Len(kept) = Len(xs)
                                 /\ \A n \in 1..Len(kept) :
                                       /\ kept[n].name = xs[n].name
                                       /\ \A fld \in InnerFields(key) :
                                             IsCappedPrefix(kept[n][fld], xs[n][fld],
                                                            InnerCapOf(fld))

\* a summary of two records, the first with every list over its cap and every
\* list of its entry cut, the second with lists below the caps
C23_Witness ==
    /\ SummaryReturned
    /\ Len(call.files) >= 2
    /\ Len(call.files[1].imports) = 21
    /\ Len(call.files[2].imports) = 10
    /\ Len(call.files[2].functions) = 10
    /\ SummaryListKeys \subseteq DOMAIN call.result.files[1]
    /\ Len(call.result.files[1]["functions"]) = 20
    /\ Len(call.result.files[1]["includes"]) = 15
    /\ Len(call.result.files[1]["php_classes"]) = 10
    /\ Len(call.result.files[1]["php_classes"][1].methods) = 15
    /\ Len(call.result.files[2]["functions"]) = 10

\* C24: an import of a file is matched against the records of the other files
\* only: dependency_map[p] never holds p itself as the resolution of one of
\* p's own imports.
C24_NoImportResolvesToItsOwnFile ==
    ResolverReturned =>
        \A i \in 1..Len(call.files) :
            \A k \in 1..Len(call.files[i].imports) :
                call.result[call.files[i].path][k] # RelPath(call.files[i].path)

\* the import string and the stem of the record's file: one contains the other
MatchesEitherWay(import_name, r) ==
    Contains(import_name, Stem(r)) \/ Contains(Stem(r), import_name)

\* C25: the matching is substring containment in both directions: an import
\* resolves to a record when the stem of another record's file is contained in
\* the import string, and also when the import string is contained in the stem.
C25_ContainmentInBothDirections ==
    ResolverReturned =>
        \A i \in 1..Len(call.files) :
            \A k \in 1..Len(call.files[i].imports) :
                LET import_name == call.files[i].imports[k]
                    hits == { j \in 1..Len(call.files) \ {i} :
                                MatchesEitherWay(import_name, call.files[j]) }
                IN  hits # {} =>
                        \E j \in 1..Len(call.files) :
                            call.result[call.files[i].path][k] = RelPath(call.files[j].path)

\* the import strings dependency_map records verbatim, as unresolved
UnresolvedImports(fs, dependency_map) ==
    UNION { { fs[i].imports[k] :
                k \in { n \in 1..Len(fs[i].imports) :
                          dependency_map[fs[i].path][n] = fs[i].imports[n] } } :
            i \in 1..Len(fs) }

\* C26: the two dependency views of the summary agree: an import string
\* contributes, trimmed, to external_dependencies if and only if
\* dependency_map records it verbatim as unresolved; no import that
\* dependency_map resolves to a path of the tree is listed as external.
C26_ExternalIffUnresolved ==
    SummaryReturned =>
        call.result.project_overview.external_dependencies
            = { CleanImport(imp) :
                  imp \in UnresolvedImports(call.files, call.result.dependency_map) }

\* C27: the engine's own artifacts are never indexed: in no run, a second or
\* later run on the same root included, does the cache file get a record in
\* files or count as an analyzed file.
C27_OwnArtifactsNeverIndexed ==
    /\ \A i \in 1..Len(files) : files[i].path # CacheId
    /\ outcome[CacheId] \notin {"extracted", "minimal", "cache_hit"}

\* C28: should_ignore and the classification of the scan agree on every path:
\* should_ignore(path) is true exactly when scan_directory skips the file at
\* one of its exclusion checks, file names with an upper-case extension
\* included.
C28_ShouldIgnoreAgreesWithScan ==
    \A f \in FileIds :
        (outcome[f] \notin {"unseen", "not_file"} /\ disk[f].exists)
            => (should_ignore(f) <=> ScanVerdict(f) # "")

\* the cache file on disk holds the records of this run, one entry per record
CacheHoldsRunRecords ==
    /\ disk[CacheId].exists
    /\ cacheData = cache_data_of(files)

\* C29: in every run the cache is persisted exactly once, at the end of
\* scan_directory, before the index is written; so when the run is over, and
\* also when it failed, the cache on disk holds the records of this run, one
\* entry per record of files.
C29_CachePersistedInEveryRun ==
    pc \in {"Scanned", "Done", "Failed"} => (cacheSave = "ok" /\ CacheHoldsRunRecords)

\* C29 as amended: _save_cache is called at most once in a run, never before
\* the scan loop has ended and always before the index is written; when its
\* write succeeded, the cache on disk holds the records of this run from then
\* on, also when writing the index fails.
C29_CacheSavedOnceBeforeIndex ==
    /\ pc \in {"Idle", "Constructed", "Scanning"} => cacheSave = "none"
    /\ (pc \in {"Scanned", "Done"} \/ failCause = "save_index") => cacheSave # "none"
    /\ (pc = "Failed" /\ failCause \notin {"save_index", "save_cache"}) => cacheSave = "none"
    /\ cacheSave = "ok" => CacheHoldsRunRecords

\* writing the index failed after the cache of a run with records was written
C29_Witness ==
    /\ pc = "Failed"
    /\ failCause = "save_index"
    /\ cacheSave = "ok"
    /\ Len(files) >= 2
    /\ CacheHoldsRunRecords

\* a pattern was added and removed again
RoundTripDone ==
    call.fn \in {"remove_ignore_pattern", "remove_library_pattern"} /\ call.returned

\* the pattern set the two calls worked on
PatternSetOf(fn) ==
    IF fn = "remove_ignore_pattern" THEN ignore_patterns ELSE library_patterns

\* C30: adding a pattern and removing it again leaves the classification of
\* every path as it was before the two calls, for ignore patterns and for
\* library patterns, also when the pattern is one of the defaults.
C30_AddThenRemoveRestoresClassification ==
    RoundTripDone => Classification = call.before

\* C30 as amended: for a pattern that was not in the set, adding and removing
\* it leaves the set, and so the classification of every path, as before; for
\* a pattern that was in the set already, a default included, the addition
\* changes nothing and the removal takes the pattern out of the set.
C30_RoundTripOfNewPattern ==
    RoundTripDone =>
        IF call.present
        THEN /\ call.added = call.before
             /\ PatternSetOf(call.fn) = call.patterns \ {call.pattern}
        ELSE /\ PatternSetOf(call.fn) = call.patterns
             /\ Classification = call.before

\* a new pattern that changed the classification of a file while it was in
\* the set, added and removed again
C30_Witness ==
    /\ RoundTripDone
    /\ ~call.present
    /\ call.added # call.before
    /\ Classification = call.before

====
